---- MODULE Spec2Model ----
(***************************************************************************)
(* GrpcMiddleware (src/src/index.ts): a dispatcher that registers a proxy  *)
(* for every method of a service, runs a pre-call handler chain before the *)
(* real implementation and a post-call handler chain after it, and         *)
(* optionally relays an allow-list of tracing headers.                     *)
(*                                                                         *)
(* JavaScript runs one turn of the event loop at a time.  A turn of        *)
(* proxyCall is split only where foreign code (the implementation) is on   *)
(* the stack: `running` names the call whose implementation is executing   *)
(* synchronously, and no other turn starts until it has left.              *)
(*                                                                         *)
(* The foreign code is the environment: a handler may raise on any run, an *)
(* implementation may invoke its callback in the same turn or a later one, *)
(* raise, or return without ever invoking it, and a Call may lack metadata *)
(* or raise when it is read or sent.  An implementation does not intercept *)
(* what is raised out of its callback, and the original callback returns.  *)
(* Every call keeps a log of the steps taken for it; the claims read it.   *)
(***************************************************************************)
EXTENDS Integers, Sequences, FiniteSets, TLC

VARIABLES
    preMiddleware,   \* constructor parameter: [defined, list]
    postMiddleware,  \* constructor parameter: [defined, list]
    tracingEnabled,  \* private tracingEnabled?: boolean
    enableCalled,    \* history: enableTracing() has been called
    server,          \* the registrations received by grpc.Server.addService
    calls,           \* per call: the closure state of proxyCall and what it did
    running,         \* the call whose implementation is on the stack, or None
    relayIn,         \* tracing relay taken alone: the Call's metadata view
    relayOut         \* tracing relay taken alone: what the relay did

vars == <<preMiddleware, postMiddleware, tracingEnabled, enableCalled, server,
          calls, running, relayIn, relayOut>>

----------------------------------------------------------------------------
(* Bounds *)

MaxPre == 2        \* pre-call handlers given to the constructor
MaxPost == 2       \* post-call handlers given to the constructor
MaxFires == 1      \* times one implementation invokes its completion callback
MaxKeys == 2       \* keys of one inbound metadata map
MaxVals == 2       \* values under one inbound metadata key

CallIds == {"call1"}
MethodNames == {"echo", "ping"}
Services == {"EchoManager"}
None == "none"

----------------------------------------------------------------------------
(* Values *)

Undefined == "undefined"
NullVal == "null"
Absent == {}                                  \* an optional argument not passed

NoRaise == [kind |-> "none", idx |-> 0]       \* a callee returned normally
NullErr == [kind |-> "null", idx |-> 0]       \* error === null
PreErr(h) == [kind |-> "pre", idx |-> h]      \* raised by pre-call handler h
PostErr(h) == [kind |-> "post", idx |-> h]    \* raised by post-call handler h
ImplErr == [kind |-> "impl", idx |-> 0]       \* reported through the callback
ImplThrown == [kind |-> "implThrow", idx |-> 0] \* raised by the implementation

(* GrpcCallback's arguments: (error, value, trailer?, flags?). *)
CallbackArgs(error, value, trailer, flags) ==
    [error |-> error, value |-> value, trailer |-> trailer, flags |-> flags]

(* What an implementation may pass to its completion callback. *)
Results ==
    { CallbackArgs(NullErr, "reply", Absent, Absent),
      CallbackArgs(ImplErr, NullVal, {"trailer"}, {1}) }

Truthy(v) == v = "true"

----------------------------------------------------------------------------
(* Tracing header relay *)

(* enum tracingHeaders: member i of the sequence has the numeric value i-1. *)
tracingHeaders ==
    << "x-forwarded-for", "x-forwarded-proto", "x-request-id",
       "x-envoy-internal", "x-b3-traceid", "x-b3-spanid", "x-b3-sampled" >>

(* The decimal string of an enum member's numeric value. *)
NumericKey(i) == <<"0", "1", "2", "3", "4", "5", "6">>[i]

(* Object.keys of a TypeScript numeric enum: the enum object holds the      *)
(* reverse mapping (value -> name) beside the mapping name -> value, so its *)
(* keys are the numeric strings and the member names.                       *)
ObjectKeys(enum) ==
    {NumericKey(i) : i \in DOMAIN enum} \cup {enum[i] : i \in DOMAIN enum}

(* Object.keys(tracingHeaders).filter(header => header === key) *)
FoundHeader(key) == {header \in ObjectKeys(tracingHeaders) : header = key}

(* grpc.Metadata.getMap(): every key with its first value. *)
GetMap(metadata) == [k \in DOMAIN metadata |-> metadata[k][1]]

(* FirstValue with the last value taken for the first. *)
LastValue(values) == values[Len(values)]

(* metadata.get(key)[0] *)
FirstValue(values) == values[1]

(* The loop over metadata.getMap(): newMetadata.set(key, metadata.get(key)[0]) *)
(* for every key found among the enum's keys.  set() leaves one value.        *)
NewMetadata(metadata) ==
    LET copied == {key \in DOMAIN GetMap(metadata) :
                       Cardinality(FoundHeader(key)) >= 1}
    IN  [key \in copied |-> <<FirstValue(metadata[key])>>]

(* A Call as the relay sees it: whether call.metadata is there, its content, *)
(* and whether reading it (getMap) or call.sendMetadata raises.              *)
MetadataView(present, md, fault) == [present |-> present, md |-> md, fault |-> fault]

RelayErr == [kind |-> "relay", idx |-> 0]      \* raised inside the relay

(* RelayCatch without the suppression: the error leaves the relay. *)
RelayRethrow(error) == error

(* The relay's catch block: "// Suppress". What leaves the relay. *)
RelayCatch(error) == NoRaise

(* The relay leaving out the send when nothing was copied: an empty        *)
(* outbound metadata object is not sent.                                   *)
PropagateUnlessEmpty(c, view) ==
    LET entry == [ev |-> "relay", call |-> c, present |-> view.present,
                  fault |-> view.fault]
    IN  IF ~view.present \/ view.fault = "getMap" \/ DOMAIN NewMetadata(view.md) = {}
        THEN [events |-> <<entry>>, raised |-> NoRaise]
        ELSE [events |-> << entry,
                            [ev |-> "send", call |-> c, md |-> NewMetadata(view.md),
                             ok |-> view.fault # "send"] >>,
              raised |-> NoRaise]

(* propagateTracingHeaders(call): the send-metadata operations it issues    *)
(* and what it raises.  The whole body is inside try/catch.  The "relay"    *)
(* event records the entry and what the Call holds in store for it.         *)
PropagateTracingHeaders(c, view) ==
    LET entry == [ev |-> "relay", call |-> c, present |-> view.present,
                  fault |-> view.fault]
    IN  IF ~view.present
        THEN [events |-> <<entry>>, raised |-> NoRaise]
        ELSE IF view.fault = "getMap"
        THEN [events |-> <<entry>>, raised |-> RelayCatch(RelayErr)]
        ELSE [events |-> << entry,
                            [ev |-> "send", call |-> c, md |-> NewMetadata(view.md),
                             ok |-> view.fault # "send"] >>,
              raised |-> IF view.fault = "send" THEN RelayCatch(RelayErr) ELSE NoRaise]

(* Inbound metadata: legal gRPC keys, the seven header names among them. *)
KeyUniverse == {tracingHeaders[i] : i \in DOMAIN tracingHeaders} \cup {"x-custom", "0"}
ValueUniverse == {"abc", "zzz"}

ValueLists == UNION {[1..n -> ValueUniverse] : n \in 1..MaxVals}

AllMetadata ==
    UNION {[ks -> ValueLists] : ks \in {s \in SUBSET KeyUniverse : Cardinality(s) <= MaxKeys}}

Faults == {"none", "getMap", "send"}

(* The metadata views a call of the dispatcher is given. *)
SampleMetadata ==
    { [k \in {"x-b3-traceid", "x-custom"} |-> <<"abc", "zzz">>] }

CallViews ==
    {MetadataView(FALSE, <<>>, "none")}
    \cup {MetadataView(TRUE, md, f) : md \in SampleMetadata, f \in Faults}

(* Inbound metadata none of whose keys is allow-listed. *)
UnlistedMetadata == [k \in {"x-custom"} |-> <<"abc">>]

----------------------------------------------------------------------------
(* Handler chains *)

(* The constructor's optional array parameter: omitted, or n handlers.     *)
(* A handler is named by its place in the array given at construction.     *)
Middleware(defined, n) == [defined |-> defined, list |-> [i \in 1..n |-> i]]

(* for (const middleware of list): the order in which the list is visited. *)
ForOf(list) == list

(* PreLoop without the abort: the handlers after the one that raised still *)
(* run, and its error is raised once the loop is over.                     *)
RECURSIVE PreLoopNoAbort(_, _, _, _)
PreLoopNoAbort(list, i, c, raiser) ==
    IF i > Len(list) THEN [events |-> <<>>, raised |-> NoRaise]
    ELSE LET e == [ev |-> "pre", h |-> list[i], call |-> c, raises |-> list[i] = raiser]
             rest == PreLoopNoAbort(list, i + 1, c, raiser)
         IN  [events |-> <<e>> \o rest.events,
              raised |-> IF list[i] = raiser THEN PreErr(list[i]) ELSE rest.raised]

(* What the handlers of a chain do in one run of it is named by `raiser`:  *)
(* the first handler that raises, or 0 when none does (the handlers after  *)
(* it are not reached).                                                    *)

(* The pre-call loop from position i: each handler gets the call; the one  *)
(* that raises ends the loop.                                              *)
RECURSIVE PreLoop(_, _, _, _)
PreLoop(list, i, c, raiser) ==
    IF i > Len(list) THEN [events |-> <<>>, raised |-> NoRaise]
    ELSE LET e == [ev |-> "pre", h |-> list[i], call |-> c, raises |-> list[i] = raiser]
         IN  IF list[i] = raiser
             THEN [events |-> <<e>>, raised |-> PreErr(list[i])]
             ELSE LET rest == PreLoop(list, i + 1, c, raiser)
                  IN  [events |-> <<e>> \o rest.events, raised |-> rest.raised]

(* if (this.preMiddleware) { for (...) middleware(call); } *)
RunPreMiddleware(c, raiser) ==
    IF preMiddleware.defined
    THEN PreLoop(ForOf(preMiddleware.list), 1, c, raiser)
    ELSE [events |-> <<>>, raised |-> NoRaise]

(* The post-call loop from position i: each handler gets (error, call). *)
RECURSIVE PostLoop(_, _, _, _, _)
PostLoop(list, i, error, c, raiser) ==
    IF i > Len(list) THEN [events |-> <<>>, raised |-> NoRaise]
    ELSE LET e == [ev |-> "post", h |-> list[i], error |-> error, call |-> c,
                       raises |-> list[i] = raiser]
         IN  IF list[i] = raiser
             THEN [events |-> <<e>>, raised |-> PostErr(list[i])]
             ELSE LET rest == PostLoop(list, i + 1, error, c, raiser)
                  IN  [events |-> <<e>> \o rest.events, raised |-> rest.raised]

(* if (this.postMiddleware) { for (...) middleware(error, call); } *)
RunPostMiddleware(error, c, raiser) ==
    IF postMiddleware.defined
    THEN PostLoop(ForOf(postMiddleware.list), 1, error, c, raiser)
    ELSE [events |-> <<>>, raised |-> NoRaise]

(* RunTracing without the test of the flag. *)
RunTracingAlways(c, view) == PropagateTracingHeaders(c, view)

(* if (this.tracingEnabled) this.propagateTracingHeaders(call) *)
RunTracing(c, view) ==
    IF Truthy(tracingEnabled)
    THEN PropagateTracingHeaders(c, view)
    ELSE [events |-> <<>>, raised |-> NoRaise]

(* ForwardedArgs with the two optional arguments left out. *)
ForwardedArgsPair(error, value, trailer, flags) ==
    CallbackArgs(error, value, Absent, Absent)

(* The arguments postCall hands to the original callback. *)
ForwardedArgs(error, value, trailer, flags) ==
    CallbackArgs(error, value, trailer, flags)

(* if (callback) callback(error, value, trailer, flags) *)
RunCallback(hasCallback, c, args) ==
    IF hasCallback
    THEN << [ev |-> "callback", call |-> c,
             args |-> ForwardedArgs(args.error, args.value, args.trailer, args.flags)] >>
    ELSE <<>>

(* postCall with the relay moved after the invocation of the original      *)
(* callback.                                                               *)
PostCallRelayLast(c, hasCallback, args, raiser, view) ==
    LET entry == [ev |-> "postCall", call |-> c, args |-> args]
        hp == RunPostMiddleware(args.error, c, raiser)
        tr == RunTracing(c, view)
    IN  IF hp.raised # NoRaise
        THEN [events |-> <<entry>> \o hp.events, raised |-> hp.raised]
        ELSE [events |-> <<entry>> \o hp.events
                         \o RunCallback(hasCallback, c, args) \o tr.events,
              raised |-> tr.raised]

(* postCall(call, callback, error, value, trailer, flags): one post-call    *)
(* pass.  A statement that raises ends the pass there.                      *)
PostCall(c, hasCallback, args, raiser, view) ==
    LET entry == [ev |-> "postCall", call |-> c, args |-> args]
        hp == RunPostMiddleware(args.error, c, raiser)
        tr == RunTracing(c, view)
    IN  IF hp.raised # NoRaise
        THEN [events |-> <<entry>> \o hp.events, raised |-> hp.raised]
        ELSE IF tr.raised # NoRaise
        THEN [events |-> <<entry>> \o hp.events \o tr.events, raised |-> tr.raised]
        ELSE [events |-> <<entry>> \o hp.events \o tr.events
                         \o RunCallback(hasCallback, c, args),
              raised |-> NoRaise]

----------------------------------------------------------------------------
(* proxyCall *)

IdleCall ==
    [st |-> "idle", hasCallback |-> FALSE, postCallInvoked |-> FALSE,
     log |-> <<>>, thrown |-> NoRaise]

(* ImplementationFor with the loop variable shared by the proxies: each    *)
(* one reaches the implementation of the last key of the loop.            *)
ImplementationOfLastKey(i, key) ==
    <<i, IF "ping" \in server[i].keys THEN "ping" ELSE key>>

(* The implementation the proxy registered under `key` by registration i   *)
(* closes over: implementation[key].                                        *)
ImplementationFor(i, key) == <<i, key>>

(* "postCallInvoked = true" in the substituted callback. *)
LatchOnFire == TRUE

(* "if (!postCallInvoked)" in the catch block. *)
(* The catch block without the latch test: every caught exception starts a *)
(* post-call pass.                                                         *)
CatchAlwaysRuns(postCallInvoked) == TRUE

(* The catch block with its test inverted: post-call processing runs from  *)
(* the catch block only when the callback has already fired.              *)
CatchRunsWhenLatched(postCallInvoked) == postCallInvoked

CatchRunsPostCall(postCallInvoked) == ~postCallInvoked

(* The substituted callback (error, value, trailer, flags) => {...}: sets   *)
(* the latch, then runs a post-call pass with the arguments it was given.   *)
SubstitutedCallback(rec, c, args, raiser, view) ==
    LET p == PostCall(c, rec.hasCallback, args, raiser, view)
    IN  [rec |-> [rec EXCEPT !.postCallInvoked = LatchOnFire,
                             !.log = @ \o <<[ev |-> "fire", call |-> c, args |-> args]>>
                                       \o p.events],
         raised |-> p.raised]

(* The catch block with the latch kept on the middleware object instead of *)
(* in the invocation: a firing of any call's callback suppresses the       *)
(* catch-block pass of every call.                                         *)
CatchSharedLatch(rec, c, error, raiser, view) ==
    LET e == [ev |-> "catch", call |-> c, error |-> error]
        p == PostCall(c, rec.hasCallback, CallbackArgs(error, NullVal, Absent, Absent),
                      raiser, view)
        latch == rec.postCallInvoked \/ \E d \in DOMAIN calls : calls[d].postCallInvoked
    IN  IF ~latch
        THEN [rec EXCEPT !.log = @ \o <<e>> \o p.events,
                         !.st = IF p.raised = NoRaise THEN "returned" ELSE "threw",
                         !.thrown = p.raised]
        ELSE [rec EXCEPT !.log = @ \o <<e>>, !.st = "returned"]

(* proxyCall without its try/catch: what is raised inside leaves proxyCall *)
(* and no post-call pass is started for it.                                *)
CatchRethrow(rec, c, error, raiser, view) ==
    [rec EXCEPT !.log = @ \o <<[ev |-> "catch", call |-> c, error |-> error]>>,
                !.st = "threw",
                !.thrown = error]

(* catch (error) { if (!postCallInvoked) this.postCall(call, callback,     *)
(* error, null) }: the turn ends; what postCall raises leaves proxyCall.   *)
Catch(rec, c, error, raiser, view) ==
    LET e == [ev |-> "catch", call |-> c, error |-> error]
        p == PostCall(c, rec.hasCallback, CallbackArgs(error, NullVal, Absent, Absent),
                      raiser, view)
    IN  IF CatchRunsPostCall(rec.postCallInvoked)
        THEN [rec EXCEPT !.log = @ \o <<e>> \o p.events,
                         !.st = IF p.raised = NoRaise THEN "returned" ELSE "threw",
                         !.thrown = p.raised]
        ELSE [rec EXCEPT !.log = @ \o <<e>>, !.st = "returned"]

CountEv(log, name) == Cardinality({i \in DOMAIN log : log[i].ev = name})

----------------------------------------------------------------------------
(* Operations *)

NotRun == [done |-> FALSE, events |-> <<>>, raised |-> NoRaise]

(* new GrpcMiddleware(server, preMiddleware?, postMiddleware?) *)
Init ==
    /\ preMiddleware \in {Middleware(FALSE, 0)} \cup {Middleware(TRUE, n) : n \in 0..MaxPre}
    /\ postMiddleware \in {Middleware(FALSE, 0)} \cup {Middleware(TRUE, n) : n \in 0..MaxPost}
    /\ tracingEnabled = Undefined
    /\ enableCalled = FALSE
    /\ server = <<>>
    /\ calls = [c \in CallIds |-> IdleCall]
    /\ running = None
    /\ relayIn = MetadataView(FALSE, <<>>, "none")
    /\ relayOut = NotRun

(* ProxyKeys with a loop that stops one key short. *)
ProxyKeysOneShort(implementation) ==
    IF implementation = {} THEN {}
    ELSE implementation \ {CHOOSE key \in implementation : TRUE}

(* for (const key in implementation) proxyImplementation[key] = ... *)
ProxyKeys(implementation) == implementation

(* addService(service, implementation).  grpc.Server takes one            *)
(* registration of a service; a second one raises out of addService.      *)
AddService(service, implementation) ==
    /\ \A i \in DOMAIN server : server[i].service # service
    /\ server' = Append(server, [service |-> service,
                                 keys |-> ProxyKeys(implementation)])
    /\ UNCHANGED <<preMiddleware, postMiddleware, tracingEnabled, enableCalled,
                   calls, running, relayIn, relayOut>>

(* enableTracing that flips the flag: a second invocation turns the relay  *)
(* off again.                                                              *)
EnableTracingToggle ==
    /\ tracingEnabled' = IF Truthy(tracingEnabled) THEN "false" ELSE "true"
    /\ enableCalled' = TRUE
    /\ UNCHANGED <<preMiddleware, postMiddleware, server, calls, running,
                   relayIn, relayOut>>

(* enableTracing() *)
EnableTracing ==
    /\ tracingEnabled' = "true"
    /\ enableCalled' = TRUE
    /\ UNCHANGED <<preMiddleware, postMiddleware, server, calls, running,
                   relayIn, relayOut>>

(* The RPC runtime calls the proxy registered under `key` by registration  *)
(* i: proxyCall runs the pre-call chain, then either enters the catch      *)
(* block (a handler raised) or invokes the implementation.                 *)
ProxyCall(c, i, key, hasCallback, preRaiser, postRaiser, view) ==
    /\ running = None
    /\ calls[c].st = "idle"
    /\ LET start == [IdleCall EXCEPT
                        !.hasCallback = hasCallback,
                        !.log = <<[ev |-> "proxy", call |-> c, method |-> <<i, key>>]>>]
           pre == RunPreMiddleware(c, preRaiser)
           ran == [start EXCEPT !.log = @ \o pre.events]
       IN  IF pre.raised # NoRaise
           THEN /\ calls' = [calls EXCEPT ![c] = Catch(ran, c, pre.raised, postRaiser, view)]
                /\ running' = None
           ELSE /\ calls' = [calls EXCEPT ![c] =
                       [ran EXCEPT !.st = "impl",
                                   !.log = @ \o <<[ev |-> "impl", call |-> c,
                                                   method |-> ImplementationFor(i, key)]>>]]
                /\ running' = c
    /\ UNCHANGED <<preMiddleware, postMiddleware, tracingEnabled, enableCalled,
                   server, relayIn, relayOut>>

(* The implementation, still on the stack, invokes the substituted         *)
(* callback.  What the post-call pass raises unwinds the implementation    *)
(* into proxyCall's catch block.                                           *)
ImplFiresSync(c, args, raiser, view) ==
    /\ running = c
    /\ CountEv(calls[c].log, "fire") < MaxFires
    /\ LET r == SubstitutedCallback(calls[c], c, args, raiser, view)
       IN  IF r.raised # NoRaise
           THEN /\ calls' = [calls EXCEPT ![c] = Catch(r.rec, c, r.raised, raiser, view)]
                /\ running' = None
           ELSE /\ calls' = [calls EXCEPT ![c] = r.rec]
                /\ running' = c
    /\ UNCHANGED <<preMiddleware, postMiddleware, tracingEnabled, enableCalled,
                   server, relayIn, relayOut>>

(* The implementation raises synchronously. *)
ImplThrows(c, raiser, view) ==
    /\ running = c
    /\ calls' = [calls EXCEPT ![c] = Catch(calls[c], c, ImplThrown, raiser, view)]
    /\ running' = None
    /\ UNCHANGED <<preMiddleware, postMiddleware, tracingEnabled, enableCalled,
                   server, relayIn, relayOut>>

(* proxyCall that completes the call itself when the implementation has    *)
(* returned without firing its callback.                                   *)
ImplReturnsCompleting(c) ==
    /\ running = c
    /\ calls' = [calls EXCEPT
           ![c].st = "returned",
           ![c].log = IF calls[c].postCallInvoked THEN @
                      ELSE @ \o PostCall(c, calls[c].hasCallback,
                                         CallbackArgs(NullErr, NullVal, Absent, Absent),
                                         0, MetadataView(FALSE, <<>>, "none")).events]
    /\ running' = None
    /\ UNCHANGED <<preMiddleware, postMiddleware, tracingEnabled, enableCalled,
                   server, relayIn, relayOut>>

(* The implementation returns; proxyCall returns. *)
ImplReturns(c) ==
    /\ running = c
    /\ calls' = [calls EXCEPT ![c].st = "returned"]
    /\ running' = None
    /\ UNCHANGED <<preMiddleware, postMiddleware, tracingEnabled, enableCalled,
                   server, relayIn, relayOut>>

(* In a later turn the implementation invokes the substituted callback it  *)
(* kept.  What the post-call pass raises goes to the event loop.           *)
ImplFiresLater(c, args, raiser, view) ==
    /\ running = None
    /\ calls[c].st \in {"returned", "threw"}
    /\ CountEv(calls[c].log, "impl") = 1
    /\ CountEv(calls[c].log, "fire") < MaxFires
    /\ LET r == SubstitutedCallback(calls[c], c, args, raiser, view)
       IN  calls' = [calls EXCEPT ![c] =
               IF r.raised # NoRaise
               THEN [r.rec EXCEPT !.log = @ \o <<[ev |-> "uncaught", call |-> c,
                                                  error |-> r.raised]>>]
               ELSE r.rec]
    /\ UNCHANGED <<preMiddleware, postMiddleware, tracingEnabled, enableCalled,
                   server, running, relayIn, relayOut>>

Next ==
    \/ \E service \in Services, implementation \in SUBSET MethodNames :
            AddService(service, implementation)
    \/ EnableTracing
    \/ \E c \in CallIds, i \in DOMAIN server, hasCallback \in BOOLEAN,
          preRaiser \in 0..MaxPre, postRaiser \in 0..MaxPost, view \in CallViews :
            \E key \in server[i].keys :
                ProxyCall(c, i, key, hasCallback, preRaiser, postRaiser, view)
    \/ \E c \in CallIds, args \in Results, raiser \in 0..MaxPost, view \in CallViews :
            ImplFiresSync(c, args, raiser, view)
    \/ \E c \in CallIds, raiser \in 0..MaxPost, view \in CallViews :
            ImplThrows(c, raiser, view)
    \/ \E c \in CallIds : ImplReturns(c)
    \/ \E c \in CallIds, args \in Results, raiser \in 0..MaxPost, view \in CallViews :
            ImplFiresLater(c, args, raiser, view)

Spec == Init /\ [][Next]_vars

----------------------------------------------------------------------------
(* Registration taken alone: addService for several services, each with    *)
(* any implementation mapping over the method names, the empty one         *)
(* included.                                                               *)

ServicesToRegister == {"EchoManager", "HealthCheck"}

NextRegister ==
    \/ \E service \in ServicesToRegister, implementation \in SUBSET MethodNames :
            AddService(service, implementation)
    \/ EnableTracing

SpecRegister == Init /\ [][NextRegister]_vars

----------------------------------------------------------------------------
(* Several calls in flight at once: the runtime dispatches a second call   *)
(* while the first still waits for its implementation to fire, and the     *)
(* implementations fire in any order, each in a turn of its own.  The      *)
(* middleware is built with one pre-call and one post-call handler, the    *)
(* relay stays off, and the runtime supplies a callback with every call.   *)

ConcurrentCalls == {"call1", "call2"}

InitConcurrent ==
    /\ preMiddleware = Middleware(TRUE, 1)
    /\ postMiddleware = Middleware(TRUE, 1)
    /\ tracingEnabled = Undefined
    /\ enableCalled = FALSE
    /\ server = <<>>
    /\ calls = [c \in ConcurrentCalls |-> IdleCall]
    /\ running = None
    /\ relayIn = MetadataView(FALSE, <<>>, "none")
    /\ relayOut = NotRun

ConcurrentViews == {MetadataView(FALSE, <<>>, "none")}

Raisers(mw) == 0..Len(mw.list)

NextConcurrent ==
    \/ \E service \in Services : AddService(service, MethodNames)
    \/ \E c \in ConcurrentCalls, i \in DOMAIN server,
          preRaiser \in Raisers(preMiddleware), postRaiser \in Raisers(postMiddleware),
          view \in ConcurrentViews :
            \E key \in server[i].keys :
                ProxyCall(c, i, key, TRUE, preRaiser, postRaiser, view)
    \/ \E c \in ConcurrentCalls, args \in Results, raiser \in Raisers(postMiddleware),
          view \in ConcurrentViews :
            ImplFiresSync(c, args, raiser, view)
    \/ \E c \in ConcurrentCalls, raiser \in Raisers(postMiddleware),
          view \in ConcurrentViews :
            ImplThrows(c, raiser, view)
    \/ \E c \in ConcurrentCalls : ImplReturns(c)
    \/ \E c \in ConcurrentCalls, args \in Results, raiser \in Raisers(postMiddleware),
          view \in ConcurrentViews :
            ImplFiresLater(c, args, raiser, view)

SpecConcurrent == InitConcurrent /\ [][NextConcurrent]_vars

----------------------------------------------------------------------------
(* The relay inside the post-call pass: a middleware built with one        *)
(* pre-call and one post-call handler, whose calls carry every metadata    *)
(* view of the dispatcher and also metadata without an allow-listed key.   *)

InitTracing ==
    /\ preMiddleware = Middleware(TRUE, 1)
    /\ postMiddleware = Middleware(TRUE, 1)
    /\ tracingEnabled = Undefined
    /\ enableCalled = FALSE
    /\ server = <<>>
    /\ calls = [c \in CallIds |-> IdleCall]
    /\ running = None
    /\ relayIn = MetadataView(FALSE, <<>>, "none")
    /\ relayOut = NotRun

TracingViews == CallViews \cup {MetadataView(TRUE, UnlistedMetadata, "none")}

NextTracing ==
    \/ \E service \in Services : AddService(service, MethodNames)
    \/ EnableTracing
    \/ \E c \in CallIds, i \in DOMAIN server, hasCallback \in BOOLEAN,
          preRaiser \in Raisers(preMiddleware), postRaiser \in Raisers(postMiddleware),
          view \in TracingViews :
            \E key \in server[i].keys :
                ProxyCall(c, i, key, hasCallback, preRaiser, postRaiser, view)
    \/ \E c \in CallIds, args \in Results, raiser \in Raisers(postMiddleware),
          view \in TracingViews :
            ImplFiresSync(c, args, raiser, view)
    \/ \E c \in CallIds, raiser \in Raisers(postMiddleware), view \in TracingViews :
            ImplThrows(c, raiser, view)
    \/ \E c \in CallIds : ImplReturns(c)
    \/ \E c \in CallIds, args \in Results, raiser \in Raisers(postMiddleware),
          view \in TracingViews :
            ImplFiresLater(c, args, raiser, view)

SpecTracing == InitTracing /\ [][NextTracing]_vars

----------------------------------------------------------------------------
(* The tracing relay taken alone: propagateTracingHeaders applied to every  *)
(* Call of the bounded metadata universe.                                  *)

RelayViews ==
    {MetadataView(FALSE, <<>>, "none")}
    \cup {MetadataView(TRUE, md, "none") : md \in AllMetadata}
    \cup {MetadataView(TRUE, md, f) : md \in SampleMetadata, f \in Faults}

InitRelay ==
    /\ preMiddleware = Middleware(FALSE, 0)
    /\ postMiddleware = Middleware(FALSE, 0)
    /\ tracingEnabled = "true"
    /\ enableCalled = TRUE
    /\ server = <<>>
    /\ calls = [c \in CallIds |-> IdleCall]
    /\ running = None
    /\ relayIn \in RelayViews
    /\ relayOut = NotRun

Relay ==
    /\ ~relayOut.done
    /\ LET r == PropagateTracingHeaders("call1", relayIn)
       IN  relayOut' = [done |-> TRUE, events |-> r.events, raised |-> r.raised]
    /\ UNCHANGED <<preMiddleware, postMiddleware, tracingEnabled, enableCalled,
                   server, calls, running, relayIn>>

NextRelay == Relay

SpecRelay == InitRelay /\ [][NextRelay]_vars

----------------------------------------------------------------------------
(* Reading a call's log *)

Log(c) == calls[c].log

Events(c, name) == {j \in DOMAIN Log(c) : Log(c)[j].ev = name}

Handlers(seq) == [j \in DOMAIN seq |-> seq[j].h]

IsPre(e) == e.ev = "pre"
IsPost(e) == e.ev = "post"

IsPrefix(s, t) == Len(s) <= Len(t) /\ \A j \in DOMAIN s : s[j] = t[j]

(* The handlers a chain holds, in the order given at construction. *)
Chain(mw) == IF mw.defined THEN mw.list ELSE <<>>

(* A post-call pass is named by the place p of its "postCall" event; the   *)
(* event before it is what started it: a "fire" of the substituted         *)
(* callback or the "catch" block.  The pass reaches to the next event that *)
(* is not its own.                                                         *)
PassStarts(c) == Events(c, "postCall")

Outside(e) == e.ev \in {"fire", "catch", "postCall", "uncaught"}

PassEnd(c, p) ==
    LET later == {j \in (p + 1)..Len(Log(c)) : Outside(Log(c)[j])}
    IN  IF later = {} THEN Len(Log(c))
        ELSE (CHOOSE j \in later : \A k \in later : j <= k) - 1

Pass(c, p) == SubSeq(Log(c), p + 1, PassEnd(c, p))

Trigger(c, p) == Log(c)[p - 1]

(* What the pass at p was started with: the arguments of the firing, or    *)
(* (caught error, null) from the catch block.                              *)
TriggerArgs(c, p) ==
    IF Trigger(c, p).ev = "fire" THEN Trigger(c, p).args
    ELSE CallbackArgs(Trigger(c, p).error, NullVal, Absent, Absent)

PassPosts(c, p) == SelectSeq(Pass(c, p), IsPost)

PassCallbacks(c, p) == {j \in DOMAIN Pass(c, p) : Pass(c, p)[j].ev = "callback"}

PostRaised(c, p) == \E j \in DOMAIN PassPosts(c, p) : PassPosts(c, p)[j].raises

PreAborted(c) == \E j \in Events(c, "pre") : Log(c)[j].raises

----------------------------------------------------------------------------
(* Claims *)

(* C1: every call that ended by a pre-call handler raising or by the       *)
(* implementation invoking its completion callback has had exactly one     *)
(* post-call pass.                                                         *)
C1_PostCallExactlyOnce ==
    \A c \in CallIds :
        (PreAborted(c) \/ Events(c, "fire") # {})
            => Cardinality(PassStarts(c)) = 1

(* C2: whatever the implementation does (raise, fire its callback in the   *)
(* same turn or a later one, in either order), a call has at most one      *)
(* post-call pass, no post-call handler runs more than once for it and the *)
(* original callback is invoked at most once.                              *)
C2_PostCallAtMostOnce ==
    \A c \in CallIds :
        /\ Cardinality(PassStarts(c)) <= 1
        /\ Cardinality(Events(c, "callback")) <= 1
        /\ \A j, k \in Events(c, "post") : Log(c)[j].h = Log(c)[k].h => j = k

(* The place of the pre-call handler that raised, in a call that aborted. *)
AbortAt(c) == CHOOSE j \in Events(c, "pre") : Log(c)[j].raises

(* What C3 says of the pre-call part of an aborted call: the handlers      *)
(* after the one that raised did not run, and the implementation was not   *)
(* invoked.                                                                *)
AbortStopsCall(c) ==
    /\ \A j \in Events(c, "pre") : j <= AbortAt(c)
    /\ Events(c, "impl") = {}

(* The arguments the original callback gets on the abort path. *)
AbortArgs(c) == CallbackArgs(PreErr(Log(c)[AbortAt(c)].h), NullVal, Absent, Absent)

(* C3 as claimed: when the k-th pre-call handler raises, handlers k+1.. do *)
(* not run, the implementation is never invoked, every post-call handler   *)
(* receives the raised error and the Call, and the original callback (when *)
(* the runtime supplied one) is invoked with (raised error, null) and no   *)
(* trailer or flags.                                                       *)
C3_PreAbortAsClaimed ==
    \A c \in CallIds :
        PreAborted(c) =>
            /\ AbortStopsCall(c)
            /\ Handlers(SelectSeq(Log(c), IsPost)) = Chain(postMiddleware)
            /\ \A j \in Events(c, "post") :
                   Log(c)[j].error = AbortArgs(c).error /\ Log(c)[j].call = c
            /\ calls[c].hasCallback =>
                   /\ Cardinality(Events(c, "callback")) = 1
                   /\ \A j \in Events(c, "callback") : Log(c)[j].args = AbortArgs(c)

(* C3, amended: when the k-th pre-call handler raises, handlers k+1.. do   *)
(* not run and the implementation is never invoked; the post-call handlers *)
(* run in order up to the first that raises, each receiving the raised     *)
(* error and the Call; if none of them raises, all of them run and the     *)
(* original callback (when supplied) is invoked once with (raised error,   *)
(* null) and no trailer or flags; if one raises, the callback is not       *)
(* invoked.                                                                *)
C3_PreAbort ==
    \A c \in CallIds :
        PreAborted(c) =>
            /\ AbortStopsCall(c)
            /\ PassStarts(c) # {}
            /\ \A p \in PassStarts(c) :
                /\ IsPrefix(Handlers(PassPosts(c, p)), Chain(postMiddleware))
                /\ \A j \in DOMAIN PassPosts(c, p) :
                       /\ PassPosts(c, p)[j].error = AbortArgs(c).error
                       /\ PassPosts(c, p)[j].call = c
                       /\ PassPosts(c, p)[j].raises => j = Len(PassPosts(c, p))
                /\ ~PostRaised(c, p) =>
                       /\ Handlers(PassPosts(c, p)) = Chain(postMiddleware)
                       /\ calls[c].hasCallback =>
                              /\ Cardinality(Events(c, "callback")) = 1
                              /\ \A j \in Events(c, "callback") :
                                     Log(c)[j].args = AbortArgs(c)
                /\ PostRaised(c, p) => Events(c, "callback") = {}

(* C3 witness: the first of two pre-call handlers raised, both post-call   *)
(* handlers ran and the original callback was invoked.                     *)
C3_Witness ==
    \E c \in CallIds :
        /\ PreAborted(c)
        /\ Len(Chain(preMiddleware)) = MaxPre
        /\ Log(c)[AbortAt(c)].h = 1
        /\ Len(SelectSeq(Log(c), IsPost)) = MaxPost
        /\ Events(c, "callback") # {}

(* C4: in every call whose pre-call handlers all returned, the             *)
(* implementation registered under the called method name has been invoked *)
(* exactly once, with the Call the proxy received.                         *)
C4_ImplementationOnce ==
    \A c \in CallIds :
        (Log(c) # <<>> /\ ~PreAborted(c)) =>
            /\ Cardinality(Events(c, "impl")) = 1
            /\ \A j \in Events(c, "impl") :
                   /\ Log(c)[j].method = Log(c)[1].method
                   /\ Log(c)[j].call = Log(c)[1].call
                   /\ Log(c)[j].call = c

(* C4 witness: a service with two methods is registered, "echo" was called *)
(* with every pre-call handler returning, and its implementation ran.      *)
C4_Witness ==
    \E c \in CallIds :
        /\ Len(Chain(preMiddleware)) = MaxPre
        /\ Cardinality(Events(c, "pre")) = MaxPre
        /\ \E j \in Events(c, "impl") : Log(c)[j].method[2] = "echo"
        /\ \E i \in DOMAIN server : server[i].keys = MethodNames

(* C5: within one call the pre-call handlers run in the order given at     *)
(* construction and all finish before the implementation starts; the       *)
(* post-call handlers run in the order given at construction, only after   *)
(* the completion callback fired or the abort was caught, and all finish   *)
(* before the original callback is invoked; no handler of the call runs    *)
(* twice or out of order.                                                  *)
C5_HandlerOrder ==
    \A c \in CallIds :
        /\ IsPrefix(Handlers(SelectSeq(Log(c), IsPre)), Chain(preMiddleware))
        /\ \A j \in Events(c, "impl") :
               /\ \A k \in Events(c, "pre") : k < j
               /\ Handlers(SelectSeq(Log(c), IsPre)) = Chain(preMiddleware)
        /\ IsPrefix(Handlers(SelectSeq(Log(c), IsPost)), Chain(postMiddleware))
        /\ \A j \in Events(c, "post") :
               \E k \in Events(c, "fire") \cup Events(c, "catch") : k < j
        /\ \A j \in Events(c, "callback") :
               /\ Handlers(SelectSeq(SubSeq(Log(c), 1, j), IsPost)) = Chain(postMiddleware)
               /\ \A k \in Events(c, "post") : k < j

(* C6: whenever the original callback is invoked, its four arguments are   *)
(* those the implementation passed to the substituted callback, or (caught *)
(* error, null, absent, absent) when the pass came from the catch block.   *)
C6_ArgumentsForwarded ==
    \A c \in CallIds : \A p \in PassStarts(c) :
        \A j \in PassCallbacks(c, p) : Pass(c, p)[j].args = TriggerArgs(c, p)

(* C6 witness: the implementation reported an error with a trailer and     *)
(* flags, the post-call handlers ran, the relay sent metadata and the      *)
(* original callback was invoked.                                          *)
C6_Witness ==
    \E c \in CallIds : \E p \in PassStarts(c) :
        /\ Trigger(c, p).ev = "fire"
        /\ Trigger(c, p).args.trailer # Absent
        /\ Len(PassPosts(c, p)) = MaxPost
        /\ \E j \in DOMAIN Pass(c, p) : Pass(c, p)[j].ev = "send"
        /\ PassCallbacks(c, p) # {}

(* The header names of the allow-list. *)
HeaderNames == {tracingHeaders[i] : i \in DOMAIN tracingHeaders}

RelaySends == {j \in DOMAIN relayOut.events : relayOut.events[j].ev = "send"}

(* C7: the keys of the outbound metadata the relay builds are exactly the  *)
(* inbound keys that are one of the seven header names.                    *)
C7_OnlyAllowListedKeys ==
    relayOut.done =>
        \A j \in RelaySends :
            DOMAIN relayOut.events[j].md = DOMAIN relayIn.md \cap HeaderNames

(* C8: every allow-listed key of the inbound metadata is in the outbound   *)
(* metadata with exactly one value, the first inbound value of that key.   *)
C8_FirstValueOnly ==
    relayOut.done =>
        /\ (relayIn.present /\ relayIn.fault # "getMap") => Cardinality(RelaySends) = 1
        /\ \A j \in RelaySends :
               \A key \in DOMAIN relayIn.md \cap HeaderNames :
                   /\ key \in DOMAIN relayOut.events[j].md
                   /\ relayOut.events[j].md[key] = <<relayIn.md[key][1]>>

(* C8 witness: the relay has sent metadata for a Call whose inbound        *)
(* metadata repeats an allow-listed key with two different values.         *)
C8_Witness ==
    /\ relayOut.done
    /\ RelaySends # {}
    /\ \E key \in DOMAIN relayIn.md \cap HeaderNames :
           /\ Len(relayIn.md[key]) >= MaxVals
           /\ relayIn.md[key][1] # relayIn.md[key][Len(relayIn.md[key])]

(* C9: while enableTracing has never been called, no send-metadata         *)
(* operation has been issued on any Call.                                  *)
C9_NoSendWhileDisabled ==
    ~enableCalled => \A c \in CallIds : Events(c, "send") = {}

(* C9 witness: enableTracing was never called and a call has been through  *)
(* a whole post-call pass, its original callback invoked.                  *)
C9_Witness ==
    /\ ~enableCalled
    /\ \E c \in CallIds : \E p \in PassStarts(c) :
           /\ Len(PassPosts(c, p)) = MaxPost
           /\ PassCallbacks(c, p) # {}

RelayFailed(e) == e.ev = "relay" /\ (~e.present \/ e.fault # "none")

(* C10: a failure inside the relay (metadata absent, reading it raises,    *)
(* sendMetadata raises) leaves the pass as it was: every post-call handler *)
(* has already run with the error value the pass was started with, nothing *)
(* is raised, and the original callback (when supplied) is then invoked    *)
(* once with the arguments the pass was started with.                      *)
C10_RelayFailureSuppressed ==
    \A c \in CallIds :
        /\ calls[c].thrown # RelayErr
        /\ \A j \in Events(c, "uncaught") : Log(c)[j].error # RelayErr
        /\ \A p \in PassStarts(c) : \A j \in DOMAIN Pass(c, p) :
               RelayFailed(Pass(c, p)[j]) =>
                   /\ Handlers(PassPosts(c, p)) = Chain(postMiddleware)
                   /\ \A k \in DOMAIN Pass(c, p) : IsPost(Pass(c, p)[k]) =>
                          k < j /\ Pass(c, p)[k].error = TriggerArgs(c, p).error
                   /\ calls[c].hasCallback =>
                          /\ Cardinality(PassCallbacks(c, p)) = 1
                          /\ \A k \in PassCallbacks(c, p) :
                                 k > j /\ Pass(c, p)[k].args = TriggerArgs(c, p)

(* C10 witness: sendMetadata raised in a pass started by the               *)
(* implementation reporting an error with trailer and flags, after both    *)
(* post-call handlers, and the original callback was invoked.              *)
C10_Witness ==
    \E c \in CallIds : \E p \in PassStarts(c) :
        /\ Trigger(c, p).ev = "fire"
        /\ Trigger(c, p).args.error = ImplErr
        /\ Len(PassPosts(c, p)) = MaxPost
        /\ \E j \in DOMAIN Pass(c, p) :
               Pass(c, p)[j].ev = "send" /\ ~Pass(c, p)[j].ok
        /\ PassCallbacks(c, p) # {}

(* C11: the tracing flag is on exactly when enableTracing has been invoked *)
(* at least once: it is off after construction, the first enableTracing    *)
(* turns it on, and no step (a further enableTracing, an addService, any   *)
(* step of a call) turns it off again.                                     *)
C11_FlagFollowsEnableTracing ==
    /\ [](Truthy(tracingEnabled) <=> enableCalled)
    /\ [][Truthy(tracingEnabled) => Truthy(tracingEnabled')]_vars

(* enableTracing has been invoked, and a registration and a whole call     *)
(* with a relay pass have come after it.                                   *)
C11_Witness ==
    /\ enableCalled
    /\ Truthy(tracingEnabled)
    /\ server # <<>>
    /\ \E c \in CallIds :
           /\ calls[c].st = "returned"
           /\ Events(c, "relay") # {}
           /\ Events(c, "callback") # {}

(* C12: every addService makes exactly one registration with the server:   *)
(* the registrations made before stay as they are, and the one added       *)
(* carries the service given and a proxy mapping whose key set is the key  *)
(* set of the implementation mapping given, the empty mapping included.    *)
C12_OneRegistrationPerAddService ==
    [][\A service \in ServicesToRegister, implementation \in SUBSET MethodNames :
           AddService(service, implementation) =>
               /\ Len(server') = Len(server) + 1
               /\ SubSeq(server', 1, Len(server)) = server
               /\ server'[Len(server')].service = service
               /\ server'[Len(server')].keys = implementation]_vars

(* Two services registered, one with the empty mapping and one with every  *)
(* method.                                                                 *)
C12_Witness ==
    /\ Len(server) = 2
    /\ server[1].service # server[2].service
    /\ server[1].keys = {}
    /\ server[2].keys = MethodNames

(* The original callback is invoked after event j with `error` in its      *)
(* error slot.                                                             *)
Surfaced(c, j, error) ==
    \E k \in Events(c, "callback") : k > j /\ Log(c)[k].args.error = error

FiredBefore(c, j) == \E k \in Events(c, "fire") : k < j

RaisedBeforeFiring(c, j) ==
    /\ j \in Events(c, "catch")
    /\ Log(c)[j].error = ImplThrown
    /\ ~FiredBefore(c, j)

CaughtArgs == CallbackArgs(ImplThrown, NullVal, Absent, Absent)

CatchPasses(c) == {p \in PassStarts(c) : Trigger(c, p).ev = "catch"}

(* C14 as claimed: when the implementation raises synchronously before its *)
(* callback ever fired, what it raised does not leave proxyCall, one       *)
(* post-call pass runs with (caught exception, null), and the original     *)
(* callback (when the runtime supplied one) receives (caught exception,    *)
(* null).                                                                  *)
C14_ImplRaiseAsClaimed ==
    \A c \in CallIds : \A j \in Events(c, "catch") :
        RaisedBeforeFiring(c, j) =>
            /\ calls[c].thrown # ImplThrown
            /\ CatchPasses(c) = {j + 1}
            /\ Log(c)[j + 1].args = CaughtArgs
            /\ calls[c].hasCallback =>
                   \E k \in PassCallbacks(c, j + 1) : Pass(c, j + 1)[k].args = CaughtArgs

(* C14: when the implementation raises synchronously before its callback   *)
(* ever fired, what it raised does not leave proxyCall and one post-call   *)
(* pass runs from the catch block with (caught exception, null), its       *)
(* handlers receiving the caught exception.  If no post-call handler       *)
(* raises in that pass, proxyCall returns normally and the original        *)
(* callback (when the runtime supplied one) receives (caught exception,    *)
(* null) once; if one raises, its exception leaves proxyCall and the       *)
(* original callback is not invoked in that pass.                          *)
C14_ImplRaise ==
    \A c \in CallIds : \A j \in Events(c, "catch") :
        RaisedBeforeFiring(c, j) =>
            LET pass == Pass(c, j + 1)
                posts == SelectSeq(pass, IsPost)
                callbacks == {k \in DOMAIN pass : pass[k].ev = "callback"}
            IN  /\ calls[c].thrown # ImplThrown
                /\ CatchPasses(c) = {j + 1}
                /\ Log(c)[j + 1].args = CaughtArgs
                /\ \A k \in DOMAIN posts : posts[k].error = ImplThrown
                /\ IF \E k \in DOMAIN posts : posts[k].raises
                   THEN /\ callbacks = {}
                        /\ calls[c].st = "threw"
                        /\ \E k \in DOMAIN posts :
                               /\ posts[k].raises
                               /\ calls[c].thrown = PostErr(posts[k].h)
                   ELSE /\ calls[c].st = "returned"
                        /\ calls[c].thrown = NoRaise
                        /\ calls[c].hasCallback =>
                               /\ Cardinality(callbacks) = 1
                               /\ \A k \in callbacks : pass[k].args = CaughtArgs

(* The implementation raised before firing; proxyCall returned normally    *)
(* and the original callback got (caught exception, null).                 *)
C14_Witness ==
    \E c \in CallIds : \E j \in DOMAIN Log(c) :
        /\ RaisedBeforeFiring(c, j)
        /\ calls[c].st = "returned"
        /\ ~calls[c].postCallInvoked
        /\ \E k \in PassCallbacks(c, j + 1) : Pass(c, j + 1)[k].args = CaughtArgs

PostCallEvents(c) ==
    {j \in DOMAIN Log(c) : Log(c)[j].ev \in {"postCall", "post", "relay", "send", "callback"}}

(* C15: a post-call pass starts only right after a firing of the           *)
(* substituted callback or right after the catch block was entered, and    *)
(* post-call handlers, the relay and the original callback run only inside *)
(* a pass.  So a call whose pre-call handlers all succeeded and whose      *)
(* implementation neither raised nor fired its callback has no post-call   *)
(* handler run, no relay and no original-callback invocation.              *)
C15_NoPassWithoutTrigger ==
    \A c \in CallIds :
        /\ \A p \in PassStarts(c) : p > 1 /\ Trigger(c, p).ev \in {"fire", "catch"}
        /\ \A j \in PostCallEvents(c) : \E p \in PassStarts(c) : p <= j
        /\ (Events(c, "fire") = {} /\ Events(c, "catch") = {}) => PostCallEvents(c) = {}

(* Every pre-call handler succeeded, the implementation was invoked and    *)
(* returned without firing: the call is left without a response.           *)
C15_Witness ==
    \E c \in CallIds :
        /\ calls[c].st = "returned"
        /\ Len(SelectSeq(Log(c), IsPre)) = MaxPre
        /\ Events(c, "impl") # {}
        /\ Events(c, "fire") = {}
        /\ Events(c, "catch") = {}
        /\ Truthy(tracingEnabled)
        /\ PostCallEvents(c) = {}

(* What one call's record shows of its own processing: every event of the  *)
(* call carries that call; its latch is set exactly when its own callback  *)
(* has fired; its catch block starts a pass exactly when its own callback  *)
(* has not fired before; and in each of its passes the post-call handlers  *)
(* receive the error, and the original callback the arguments, the pass    *)
(* was started with.                                                       *)
ProcessedOnItsOwn(c) ==
    /\ \A j \in DOMAIN Log(c) : Log(c)[j].call = c
    /\ calls[c].postCallInvoked <=> Events(c, "fire") # {}
    /\ \A j \in Events(c, "catch") : (j + 1 \in PassStarts(c)) <=> ~FiredBefore(c, j)
    /\ \A p \in PassStarts(c) :
           /\ \A k \in DOMAIN PassPosts(c, p) :
                  PassPosts(c, p)[k].error = TriggerArgs(c, p).error
           /\ \A k \in PassCallbacks(c, p) : Pass(c, p)[k].args = TriggerArgs(c, p)

(* C16: with several calls in flight, their callbacks firing in any order  *)
(* and in any later turn, each call is processed on its own (its own Call, *)
(* error, callback arguments and latch), and a step of one call leaves the *)
(* record of every other call as it was.                                   *)
C16_CallsIndependent ==
    /\ [](\A c \in DOMAIN calls : ProcessedOnItsOwn(c))
    /\ [][\A c, d \in DOMAIN calls :
              (c # d /\ calls'[c] # calls[c]) => calls'[d] = calls[d]]_vars

(* Both calls were dispatched; the second has fired with a failure and its *)
(* original callback got it, while the first, whose implementation has     *)
(* returned, still waits with its latch unset.                             *)
C16_Witness ==
    /\ calls["call1"].st = "returned"
    /\ Events("call1", "impl") # {}
    /\ ~calls["call1"].postCallInvoked
    /\ calls["call2"].postCallInvoked
    /\ \E p \in PassStarts("call2") :
           /\ Trigger("call2", p).ev = "fire"
           /\ \E k \in PassCallbacks("call2", p) :
                  Pass("call2", p)[k].args.error = ImplErr

IsRelay(e) == e.ev \in {"relay", "send"}

(* C17: in every post-call pass, started by a firing or by the catch       *)
(* block, the relay and its send-metadata come after every post-call       *)
(* handler of the list has run and returned, and before the original       *)
(* callback is invoked.                                                    *)
C17_RelayBetweenHandlersAndCallback ==
    \A c \in CallIds : \A p \in PassStarts(c) :
        LET pass == Pass(c, p)
        IN  \A j \in DOMAIN pass :
                IsRelay(pass[j]) =>
                    /\ Handlers(SelectSeq(pass, IsPost)) = Chain(postMiddleware)
                    /\ \A k \in DOMAIN pass :
                           /\ IsPost(pass[k]) => (k < j /\ ~pass[k].raises)
                           /\ pass[k].ev = "callback" => k > j

(* A pass on the abort path: a pre-call handler raised, every post-call    *)
(* handler ran, the metadata was sent and the original callback invoked.   *)
C17_Witness ==
    \E c \in CallIds : \E p \in PassStarts(c) :
        /\ PreAborted(c)
        /\ Trigger(c, p).ev = "catch"
        /\ Len(PassPosts(c, p)) = MaxPost
        /\ \E j \in DOMAIN Pass(c, p) : Pass(c, p)[j].ev = "send" /\ Pass(c, p)[j].ok
        /\ PassCallbacks(c, p) # {}

(* The pass at p was started by a firing made while the implementation was *)
(* on the stack, and what it raised reached proxyCall's catch block.       *)
RaisedIntoCatch(c, p) ==
    /\ Trigger(c, p).ev = "fire"
    /\ PostRaised(c, p)
    /\ PassEnd(c, p) < Len(Log(c))
    /\ Log(c)[PassEnd(c, p) + 1].ev = "catch"

(* C18: a post-call handler that raises ends its pass there: no later      *)
(* post-call handler, no relay and no original-callback invocation in that *)
(* pass.  When the pass was started by a firing made synchronously inside  *)
(* the implementation, the catch block receives the handler's exception,   *)
(* starts no pass for it (the latch is set) and lets nothing out of        *)
(* proxyCall; unless the implementation fires its callback once more, the  *)
(* call has no other pass and its original callback is never invoked.      *)
C18_PostHandlerRaiseEndsPass ==
    \A c \in CallIds : \A p \in PassStarts(c) :
        PostRaised(c, p) =>
            LET pass == Pass(c, p)
                j == PassEnd(c, p) + 1
            IN  /\ \A k \in DOMAIN pass : pass[k].ev = "post"
                /\ \A k \in DOMAIN pass : pass[k].raises <=> k = Len(pass)
                /\ RaisedIntoCatch(c, p) =>
                       /\ Log(c)[j].error = PostErr(pass[Len(pass)].h)
                       /\ calls[c].postCallInvoked
                       /\ j + 1 \notin PassStarts(c)
                       /\ calls[c].st = "returned"
                       /\ calls[c].thrown = NoRaise
                       /\ Cardinality(Events(c, "fire")) = 1 =>
                              /\ PassStarts(c) = {p}
                              /\ Events(c, "callback") = {}

(* The implementation fired synchronously, the first post-call handler     *)
(* raised, the catch block swallowed it: the runtime's callback was never  *)
(* invoked.                                                                *)
C18_Witness ==
    \E c \in CallIds : \E p \in PassStarts(c) :
        /\ calls[c].hasCallback
        /\ RaisedIntoCatch(c, p)
        /\ Len(postMiddleware.list) = MaxPost
        /\ Len(PassPosts(c, p)) = 1
        /\ calls[c].st = "returned"
        /\ Events(c, "callback") = {}

PassSends(c, p) == {j \in DOMAIN Pass(c, p) : Pass(c, p)[j].ev = "send"}

PassRelays(c, p) == {j \in DOMAIN Pass(c, p) : Pass(c, p)[j].ev = "relay"}

(* C19 as claimed: with tracing enabled every post-call pass runs the      *)
(* relay; a relay that finds inbound metadata on the Call issues exactly   *)
(* one send-metadata operation, and one that finds none issues no send.    *)
C19_OneSendPerPassAsClaimed ==
    /\ [](\A c \in CallIds : \A p \in PassStarts(c) : \A j \in PassRelays(c, p) :
              IF Pass(c, p)[j].present
              THEN Cardinality(PassSends(c, p)) = 1
              ELSE PassSends(c, p) = {})
    /\ [][\A c \in CallIds :
              Truthy(tracingEnabled) =>
                  \A p \in PassStarts(c)' \ PassStarts(c) : PassRelays(c, p)' # {}]_vars

(* C19: with tracing enabled, every post-call pass in which no post-call   *)
(* handler raises runs the relay once.  The relay issues exactly one       *)
(* send-metadata operation when the Call has metadata and reading it does  *)
(* not raise (also when nothing was copied: the outbound metadata is then  *)
(* empty), and none when the metadata is absent or reading it raises.  A   *)
(* pass in which a post-call handler raises runs no relay and issues no    *)
(* send.                                                                   *)
C19_OneSendPerPass ==
    /\ [](\A c \in CallIds : \A p \in PassStarts(c) :
              /\ Cardinality(PassRelays(c, p)) <= 1
              /\ PostRaised(c, p) => PassRelays(c, p) = {}
              /\ PassRelays(c, p) = {} => PassSends(c, p) = {}
              /\ \A j \in PassRelays(c, p) :
                     IF Pass(c, p)[j].present /\ Pass(c, p)[j].fault # "getMap"
                     THEN Cardinality(PassSends(c, p)) = 1
                     ELSE PassSends(c, p) = {})
    /\ [][\A c \in CallIds :
              Truthy(tracingEnabled) =>
                  \A p \in PassStarts(c)' \ PassStarts(c) :
                      PostRaised(c, p)' \/ PassRelays(c, p)' # {}]_vars

(* With tracing enabled, a pass for a Call whose metadata holds no         *)
(* allow-listed key: one send, of an empty metadata object, then the       *)
(* original callback.                                                      *)
C19_Witness ==
    \E c \in CallIds : \E p \in PassStarts(c) :
        /\ Cardinality(PassSends(c, p)) = 1
        /\ \A j \in PassSends(c, p) : DOMAIN Pass(c, p)[j].md = {}
        /\ PassCallbacks(c, p) # {}

====
